---------------------------- MODULE Spec2Model ----------------------------
(***************************************************************************)
(* A model of src/string_util.cpp (libtorrent): the listen-interface       *)
(* parser and printer, the two comma-separated-list parsers, split_string  *)
(* and to_string.                                                          *)
(*                                                                         *)
(* Text is a sequence of bytes, each written as a one-character string.    *)
(* Indices into text are 0-based as in the source: At(s, i) is s[i].       *)
(***************************************************************************)
EXTENDS Integers, Sequences, FiniteSets

VARIABLES in, st

vars == <<in, st>>

(***************************************************************************)
(* Bounds of the model.                                                    *)
(***************************************************************************)
\* longest free-form part of a parser input
MaxLen == 3
\* longest digit run tried as a port text
MaxDigits == 6

(***************************************************************************)
(* Characters.                                                             *)
(***************************************************************************)
At(s, i) == s[i + 1]

\* s.substr(pos, n) for pos <= s.size(): at most n bytes from pos
substr(s, pos, n) ==
    SubSeq(s, pos + 1, IF pos + n > Len(s) THEN Len(s) ELSE pos + n)

\* the form feed and the vertical tab are written "FF" and "VT"
is_space(c) == c \in {" ", "\t", "\n", "\r", "FF", "VT"}

is_digit(c) == c \in {"0", "1", "2", "3", "4", "5", "6", "7", "8", "9"}

DigitVal(c) ==
    CASE c = "0" -> 0 [] c = "1" -> 1 [] c = "2" -> 2 [] c = "3" -> 3
      [] c = "4" -> 4 [] c = "5" -> 5 [] c = "6" -> 6 [] c = "7" -> 7
      [] c = "8" -> 8 [] c = "9" -> 9

DigitChar(d) ==
    CASE d = 0 -> "0" [] d = 1 -> "1" [] d = 2 -> "2" [] d = 3 -> "3"
      [] d = 4 -> "4" [] d = 5 -> "5" [] d = 6 -> "6" [] d = 7 -> "7"
      [] d = 8 -> "8" [] d = 9 -> "9"

\* std::atoi: leading whitespace, an optional sign, then the leading digit
\* run; 0 when there is none.  AtoiDigits folds the digit run from index i.
RECURSIVE AtoiDigits(_, _, _)
AtoiDigits(s, i, acc) ==
    IF i < Len(s) /\ is_digit(At(s, i))
    THEN AtoiDigits(s, i + 1, acc * 10 + DigitVal(At(s, i)))
    ELSE acc

RECURSIVE AtoiSkip(_, _)
AtoiSkip(s, i) ==
    IF i < Len(s) /\ is_space(At(s, i)) THEN AtoiSkip(s, i + 1) ELSE i

atoi(s) ==
    LET i == AtoiSkip(s, 0)
    IN  IF i < Len(s) /\ At(s, i) = "-" THEN 0 - AtoiDigits(s, i + 1, 0)
        ELSE IF i < Len(s) /\ At(s, i) = "+" THEN AtoiDigits(s, i + 1, 0)
        ELSE AtoiDigits(s, i, 0)

(***************************************************************************)
(* 64-bit integers.  A std::uint64_t is four 16-bit limbs, least           *)
(* significant first; a std::int64_t is its two's complement bit pattern   *)
(* in the same form.  Arithmetic is modulo 2^64.                           *)
(***************************************************************************)
\* std::numeric_limits<std::uint64_t>::max()
U64Max == <<65535, 65535, 65535, 65535>>

U64Zero == <<0, 0, 0, 0>>

\* a - b, the borrow out of the top limb dropped
RECURSIVE U64SubFrom(_, _, _, _)
U64SubFrom(a, b, k, borrow) ==
    IF k > 4 THEN <<>>
    ELSE LET d == a[k] - b[k] - borrow
         IN  IF d < 0 THEN <<d + 65536>> \o U64SubFrom(a, b, k + 1, 1)
             ELSE <<d>> \o U64SubFrom(a, b, k + 1, 0)

U64Sub(a, b) == U64SubFrom(a, b, 1, 0)

\* a + c for a small c, the carry out of the top limb dropped
RECURSIVE U64AddFrom(_, _, _)
U64AddFrom(a, k, carry) ==
    IF k > 4 THEN <<>>
    ELSE LET d == a[k] + carry
         IN  <<d % 65536>> \o U64AddFrom(a, k + 1, d \div 65536)

U64Add(a, c) == U64AddFrom(a, 1, c)

\* long division by 10 from the top limb: <<quotient limbs, remainder>>
RECURSIVE U64DivFrom(_, _, _)
U64DivFrom(a, k, rem) ==
    IF k < 1 THEN <<<<>>, rem>>
    ELSE LET cur == rem * 65536 + a[k]
             low == U64DivFrom(a, k - 1, cur % 10)
         IN  <<Append(low[1], cur \div 10), low[2]>>

U64Div10(a) == U64DivFrom(a, 4, 0)[1]

U64Mod10(a) == U64DivFrom(a, 4, 0)[2]

\* n < 0 for the std::int64_t with bit pattern n
I64Negative(n) == n[4] >= 32768

\* std::int64_t(v) for an int v (the conversion at the call in line 173)
I64OfInt(v) ==
    IF v >= 0 THEN <<v % 65536, v \div 65536, 0, 0>>
    ELSE U64Sub(U64Zero, <<(0 - v) % 65536, (0 - v) \div 65536, 0, 0>>)

(***************************************************************************)
(* to_string, one definition per statement.  ret is the returned array,    *)
(* indexed from 0; p is the index p points at.  A byte never written is    *)
(* "?", the terminator is "NUL".                                           *)
(***************************************************************************)
\* std::numeric_limits<std::int64_t>::digits10
Digits10 == 18

RetSize == 4 + Digits10

\* TsEnter with the "+ 1" of line 58 left out
TsEnter_NoPlusOne(n) ==
    [pc |-> "digit", n |-> n, p |-> RetSize - 1,
     ret |-> [k \in 0..(RetSize - 1) |-> IF k = RetSize - 1 THEN "NUL" ELSE "?"],
     un |-> IF I64Negative(n) THEN U64Sub(U64Max, n) ELSE n]

\* lines 51-59
TsEnter(n) ==
    [pc |-> "digit", n |-> n, p |-> RetSize - 1,
     ret |-> [k \in 0..(RetSize - 1) |-> IF k = RetSize - 1 THEN "NUL" ELSE "?"],
     un |-> IF I64Negative(n) THEN U64Add(U64Sub(U64Max, n), 1) ELSE n]

\* lines 60-63: one pass of the do-while
TsDigit(s) ==
    LET q == U64Div10(s.un)
    IN  [s EXCEPT !.p = s.p - 1,
                  !.ret = [k \in DOMAIN s.ret |->
                              IF k = s.p - 1 THEN DigitChar(U64Mod10(s.un))
                              ELSE s.ret[k]],
                  !.un = q,
                  !.pc = IF q # U64Zero THEN "digit" ELSE "sign"]

\* line 64
TsSign(s) ==
    IF I64Negative(s.n)
    THEN [s EXCEPT !.p = s.p - 1,
                   !.ret = [k \in DOMAIN s.ret |->
                               IF k = s.p - 1 THEN "-" ELSE s.ret[k]],
                   !.pc = "move"]
    ELSE [s EXCEPT !.pc = "move"]

\* lines 65-66: memmove(ret.data(), p, &ret.back() - p + 1)
TsMove(s) ==
    [s EXCEPT !.ret = [k \in DOMAIN s.ret |->
                          IF k < RetSize - s.p THEN s.ret[k + s.p] ELSE s.ret[k]],
              !.pc = "done"]

TsStep(s) ==
    CASE s.pc = "digit" -> TsDigit(s)
      [] s.pc = "sign"  -> TsSign(s)
      [] s.pc = "move"  -> TsMove(s)

RECURSIVE TsRun(_)
TsRun(s) == IF s.pc = "done" THEN s ELSE TsRun(TsStep(s))

\* the text an array holds: its bytes before the first terminator
RECURSIVE CStr(_, _)
CStr(ret, k) ==
    IF k \notin DOMAIN ret \/ ret[k] = "NUL" THEN <<>>
    ELSE <<ret[k]>> \o CStr(ret, k + 1)

\* to_string(n).data() read as text
to_string(n) == CStr(TsRun(TsEnter(n)).ret, 0)

(***************************************************************************)
(* parse_listen_interfaces, one definition per statement of the loop body. *)
(* A frame s holds the locals: start, iface, port (the port text), out,    *)
(* and pc, the statement about to run.  rd is the index of the byte the    *)
(* last statement read (-1: none); tok is the cursor where the device      *)
(* token of the current entry began, it0 the cursor at the last evaluation *)
(* of the loop condition.                                                  *)
(***************************************************************************)
PliFrame ==
    [pc |-> "loop", start |-> 0, iface |-> [device |-> <<>>, ssl |-> FALSE],
     port |-> <<>>, out |-> <<>>, rd |-> -1, tok |-> 0, it0 |-> 0]

\* a `while (start < in.size() && <cond on in[start]>) ++start;` statement
SkipWhile(s, i, cond, next) ==
    IF s.start < Len(i) /\ cond
    THEN [s EXCEPT !.start = s.start + 1, !.rd = s.start]
    ELSE [s EXCEPT !.pc = next, !.rd = IF s.start < Len(i) THEN s.start ELSE -1]

\* line 189: while (start < in.size())
PliLoop(i, s) ==
    IF s.start < Len(i)
    THEN [s EXCEPT !.pc = "skip_leading", !.it0 = s.start, !.rd = -1]
    ELSE [s EXCEPT !.pc = "done", !.rd = -1]

\* lines 192-193
PliSkipLeading(i, s) ==
    SkipWhile(s, i, s.start < Len(i) /\ is_space(At(i, s.start)), "check_end")

\* lines 195-198
PliCheckEnd(i, s) ==
    IF s.start = Len(i)
    THEN [s EXCEPT !.pc = "done", !.rd = -1]
    ELSE [s EXCEPT !.pc = "branch", !.rd = -1,
                   !.iface = [device |-> <<>>, ssl |-> FALSE]]

\* lines 200-202
PliBranch(i, s) ==
    IF At(i, s.start) = "["
    THEN [s EXCEPT !.pc = "v6_device", !.start = s.start + 1,
                   !.tok = s.start, !.rd = s.start]
    ELSE [s EXCEPT !.pc = "device", !.tok = s.start, !.rd = s.start]

\* lines 204-205
PliV6Device(i, s) ==
    IF s.start < Len(i) /\ At(i, s.start) # "]"
    THEN [s EXCEPT !.iface.device = Append(s.iface.device, At(i, s.start)),
                   !.start = s.start + 1, !.rd = s.start]
    ELSE [s EXCEPT !.pc = "skip_to_colon",
                   !.rd = IF s.start < Len(i) THEN s.start ELSE -1]

\* lines 208-209
PliSkipToColon(i, s) ==
    SkipWhile(s, i, s.start < Len(i) /\ At(i, s.start) # ":", "skip_spaces1")

\* lines 214-215
PliDevice(i, s) ==
    IF s.start < Len(i) /\ ~is_space(At(i, s.start)) /\ At(i, s.start) # ":"
    THEN [s EXCEPT !.iface.device = Append(s.iface.device, At(i, s.start)),
                   !.start = s.start + 1, !.rd = s.start]
    ELSE [s EXCEPT !.pc = "skip_spaces1",
                   !.rd = IF s.start < Len(i) THEN s.start ELSE -1]

\* lines 219-220
PliSkipSpaces1(i, s) ==
    SkipWhile(s, i, s.start < Len(i) /\ is_space(At(i, s.start)), "need_colon")

\* PliNeedColon with a missing ':' dropping the entry instead of returning
PliNeedColon_SkipEntry(i, s) ==
    IF s.start = Len(i) \/ At(i, s.start) # ":"
    THEN [s EXCEPT !.pc = "skip_to_comma", !.rd = -1,
                   !.iface = [device |-> s.iface.device, ssl |-> FALSE,
                              port |-> -1]]
    ELSE [s EXCEPT !.pc = "skip_spaces2", !.start = s.start + 1,
                   !.rd = s.start]

\* lines 222-223
PliNeedColon(i, s) ==
    IF s.start = Len(i)
    THEN [s EXCEPT !.pc = "done", !.rd = -1]
    ELSE IF At(i, s.start) # ":"
    THEN [s EXCEPT !.pc = "done", !.rd = s.start]
    ELSE [s EXCEPT !.pc = "skip_spaces2", !.start = s.start + 1,
                   !.rd = s.start]

\* lines 226-230
PliSkipSpaces2(i, s) ==
    LET t == SkipWhile(s, i, s.start < Len(i) /\ is_space(At(i, s.start)),
                       "consume_port")
    IN  IF t.pc = "consume_port" THEN [t EXCEPT !.port = <<>>] ELSE t

\* lines 231-232
PliConsumePort(i, s) ==
    IF s.start < Len(i) /\ is_digit(At(i, s.start)) /\ At(i, s.start) # ","
    THEN [s EXCEPT !.port = Append(s.port, At(i, s.start)),
                   !.start = s.start + 1, !.rd = s.start]
    ELSE [s EXCEPT !.pc = "port_value",
                   !.rd = IF s.start < Len(i) THEN s.start ELSE -1]

\* PliPortValue with the range test of line 241 off by one
PliPortValue_OffByOne(i, s) ==
    LET v == IF s.port = <<>> \/ Len(s.port) > 5 THEN -1
             ELSE LET a == atoi(s.port)
                  IN  IF a < 0 \/ a > 65536 THEN -1 ELSE a
    IN  [s EXCEPT !.pc = "skip_spaces3", !.rd = -1,
                  !.iface = [device |-> s.iface.device, ssl |-> s.iface.ssl,
                             port |-> v]]

\* lines 234-242
PliPortValue(i, s) ==
    LET v == IF s.port = <<>> \/ Len(s.port) > 5 THEN -1
             ELSE LET a == atoi(s.port)
                  IN  IF a < 0 \/ a > 65535 THEN -1 ELSE a
    IN  [s EXCEPT !.pc = "skip_spaces3", !.rd = -1,
                  !.iface = [device |-> s.iface.device, ssl |-> s.iface.ssl,
                             port |-> v]]

\* lines 245-246
PliSkipSpaces3(i, s) ==
    SkipWhile(s, i, s.start < Len(i) /\ is_space(At(i, s.start)), "ssl")

\* lines 249-253
PliSsl(i, s) ==
    IF s.start < Len(i) /\ At(i, s.start) = "s"
    THEN [s EXCEPT !.pc = "skip_to_comma", !.iface.ssl = TRUE,
                   !.start = s.start + 1, !.rd = s.start]
    ELSE [s EXCEPT !.pc = "skip_to_comma",
                   !.rd = IF s.start < Len(i) THEN s.start ELSE -1]

\* lines 256-257
PliSkipToComma(i, s) ==
    SkipWhile(s, i, s.start < Len(i) /\ At(i, s.start) # ",", "push")

\* line 259
PliPush(i, s) ==
    IF s.iface.port >= 0
    THEN [s EXCEPT !.pc = "skip_comma", !.out = Append(s.out, s.iface),
                   !.rd = -1]
    ELSE [s EXCEPT !.pc = "skip_comma", !.rd = -1]

\* PliSkipComma without the ++start of line 263
PliSkipComma_NoAdvance(i, s) ==
    [s EXCEPT !.pc = "loop", !.rd = IF s.start < Len(i) THEN s.start ELSE -1]

\* lines 262-263
PliSkipComma(i, s) ==
    IF s.start < Len(i) /\ At(i, s.start) = ","
    THEN [s EXCEPT !.pc = "loop", !.start = s.start + 1, !.rd = s.start]
    ELSE [s EXCEPT !.pc = "loop",
                   !.rd = IF s.start < Len(i) THEN s.start ELSE -1]

\* the statement at s.pc
PliStep(i, s) ==
    CASE s.pc = "loop"          -> PliLoop(i, s)
      [] s.pc = "skip_leading"  -> PliSkipLeading(i, s)
      [] s.pc = "check_end"     -> PliCheckEnd(i, s)
      [] s.pc = "branch"        -> PliBranch(i, s)
      [] s.pc = "v6_device"     -> PliV6Device(i, s)
      [] s.pc = "skip_to_colon" -> PliSkipToColon(i, s)
      [] s.pc = "device"        -> PliDevice(i, s)
      [] s.pc = "skip_spaces1"  -> PliSkipSpaces1(i, s)
      [] s.pc = "need_colon"    -> PliNeedColon(i, s)
      [] s.pc = "skip_spaces2"  -> PliSkipSpaces2(i, s)
      [] s.pc = "consume_port"  -> PliConsumePort(i, s)
      [] s.pc = "port_value"    -> PliPortValue(i, s)
      [] s.pc = "skip_spaces3"  -> PliSkipSpaces3(i, s)
      [] s.pc = "ssl"           -> PliSsl(i, s)
      [] s.pc = "skip_to_comma" -> PliSkipToComma(i, s)
      [] s.pc = "push"          -> PliPush(i, s)
      [] s.pc = "skip_comma"    -> PliSkipComma(i, s)

RECURSIVE PliRun(_, _)
PliRun(i, s) == IF s.pc = "done" THEN s ELSE PliRun(i, PliStep(i, s))

\* the value the function returns
parse_listen_interfaces(i) == PliRun(i, PliFrame).out

(***************************************************************************)
(* make_address_v6(device, ec) leaves ec clear: device is an IPv6 literal. *)
(* The address parser is a collaborator outside this file; it is modelled  *)
(* on texts of hexadecimal digits and ':' (no dotted quad, no scope id):   *)
(* groups of 1 to 4 hexadecimal digits separated by ':', either 8 groups   *)
(* or one "::" standing for the missing ones.                              *)
(***************************************************************************)
HexDigits ==
    {"0", "1", "2", "3", "4", "5", "6", "7", "8", "9", "a", "b", "c", "d",
     "e", "f", "A", "B", "C", "D", "E", "F"}

\* the lengths of the maximal runs of non-':' bytes, in order
RECURSIVE GroupLens(_, _, _)
GroupLens(t, k, run) ==
    IF k > Len(t) THEN <<run>>
    ELSE IF t[k] = ":" THEN <<run>> \o GroupLens(t, k + 1, 0)
    ELSE GroupLens(t, k + 1, run + 1)

IsV6(t) ==
    LET lens == GroupLens(t, 1, 0)
        pairs == {k \in 1..(Len(t) - 1) : t[k] = ":" /\ t[k + 1] = ":"}
        groups == {k \in 1..Len(lens) : lens[k] > 0}
    IN  /\ \A k \in 1..Len(t) : t[k] \in HexDigits \cup {":"}
        /\ Cardinality(pairs) <= 1
        /\ \A k \in 1..Len(lens) : lens[k] <= 4
        /\ (Len(t) > 0 /\ t[1] = ":") => 1 \in pairs
        /\ (Len(t) > 0 /\ t[Len(t)] = ":") => (Len(t) - 1) \in pairs
        /\ IF pairs = {} THEN Cardinality(groups) = 8
           ELSE Cardinality(groups) <= 7

(***************************************************************************)
(* print_listen_interfaces.                                                *)
(***************************************************************************)
\* PrintEntry without the 's' of line 174
PrintEntry_NoSsl(i) ==
    (IF IsV6(i.device) THEN <<"[">> \o i.device \o <<"]">> ELSE i.device)
        \o <<":">> \o to_string(I64OfInt(i.port))

\* lines 159-174: what one record appends to ret
PrintEntry(i) ==
    (IF IsV6(i.device) THEN <<"[">> \o i.device \o <<"]">> ELSE i.device)
        \o <<":">> \o to_string(I64OfInt(i.port))
        \o (IF i.ssl THEN <<"s">> ELSE <<>>)

\* lines 154-177; PrintFrom is the loop from record k on
RECURSIVE PrintFrom(_, _, _)
PrintFrom(xs, k, ret) ==
    IF k > Len(xs) THEN ret
    ELSE PrintFrom(xs, k + 1,
             (IF ret # <<>> THEN ret \o <<",">> ELSE ret) \o PrintEntry(xs[k]))

print_listen_interfaces(xs) == PrintFrom(xs, 1, <<>>)

(***************************************************************************)
(* std::string searches.  std::string::npos is written -1.                 *)
(***************************************************************************)
\* s.find_first_of(c, pos)
RECURSIVE find_first_of(_, _, _)
find_first_of(s, c, pos) ==
    IF pos >= Len(s) THEN -1
    ELSE IF At(s, pos) = c THEN pos
    ELSE find_first_of(s, c, pos + 1)

\* s.find_last_of(c, pos): the last occurrence at or before pos
RECURSIVE find_last_of(_, _, _)
find_last_of(s, c, pos) ==
    IF pos < 0 \/ Len(s) = 0 THEN -1
    ELSE IF pos >= Len(s) THEN find_last_of(s, c, Len(s) - 1)
    ELSE IF At(s, pos) = c THEN pos
    ELSE find_last_of(s, c, pos - 1)

\* while (start < in.size() && is_space(in[start])) ++start;
RECURSIVE SkipSpaces(_, _)
SkipSpaces(s, start) ==
    IF start < Len(s) /\ is_space(At(s, start)) THEN SkipSpaces(s, start + 1)
    ELSE start

\* while (soft_end > start && is_space(in[soft_end-1])) --soft_end;
RECURSIVE TrimBack(_, _, _)
TrimBack(s, start, soft_end) ==
    IF soft_end > start /\ is_space(At(s, soft_end - 1))
    THEN TrimBack(s, start, soft_end - 1)
    ELSE soft_end

(***************************************************************************)
(* parse_comma_separated_string: the loop condition and one pass of the    *)
(* loop body.  The frame holds start, end and out.                         *)
(***************************************************************************)
\* lines 317-320
CsvFrame == [pc |-> "loop", start |-> 0, end |-> 0, out |-> <<>>]

\* line 322
CsvLoop(i, s) ==
    IF s.start < Len(i) THEN [s EXCEPT !.pc = "body"] ELSE [s EXCEPT !.pc = "done"]

\* lines 324-339
CsvBody(i, s) ==
    LET start == SkipSpaces(i, s.start)
        found == find_first_of(i, ",", start)
        end == IF found = -1 THEN Len(i) ELSE found
        soft_end == TrimBack(i, start, end)
    IN  [s EXCEPT !.pc = "loop", !.start = end + 1, !.end = end,
                  !.out = Append(s.out, substr(i, start, soft_end - start))]

(***************************************************************************)
(* parse_comma_separated_string_port, in the same form.                    *)
(***************************************************************************)
\* lines 276-279
CspFrame == [pc |-> "loop", start |-> 0, end |-> 0, out |-> <<>>]

\* line 281
CspLoop(i, s) ==
    IF s.start < Len(i) THEN [s EXCEPT !.pc = "body"] ELSE [s EXCEPT !.pc = "done"]

\* lines 295-308: the pair a field with its colon at `colon` appends
CspPair(i, start, colon, end) ==
    LET port == atoi(substr(i, colon + 1, end - colon - 1))
        soft_end == TrimBack(i, start, colon)
        start2 == IF At(i, start) = "[" THEN start + 1 ELSE start
        soft_end2 == IF soft_end > start2 /\ At(i, soft_end - 1) = "]"
                     THEN soft_end - 1 ELSE soft_end
    IN  <<substr(i, start2, soft_end2 - start2), port>>

\* CspBody with "colon >= start" for the "colon > start" of line 293
CspBody_AtOrAfter(i, s) ==
    LET start == SkipSpaces(i, s.start)
        found == find_first_of(i, ",", start)
        end == IF found = -1 THEN Len(i) ELSE found
        colon == find_last_of(i, ":", end)
    IN  [s EXCEPT !.pc = "loop", !.start = end + 1, !.end = end,
                  !.out = IF colon # -1 /\ colon >= start
                          THEN Append(s.out, CspPair(i, start, colon, end))
                          ELSE s.out]

\* lines 283-311
CspBody(i, s) ==
    LET start == SkipSpaces(i, s.start)
        found == find_first_of(i, ",", start)
        end == IF found = -1 THEN Len(i) ELSE found
        colon == find_last_of(i, ":", end)
    IN  [s EXCEPT !.pc = "loop", !.start = end + 1, !.end = end,
                  !.out = IF colon # -1 /\ colon > start
                          THEN Append(s.out, CspPair(i, start, colon, end))
                          ELSE s.out]

(***************************************************************************)
(* split_string(last, sep), one definition per statement.  The frame holds *)
(* pos, found_sep and the pair returned.                                   *)
(***************************************************************************)
\* lines 345-348
SplitEnter(last, sep) ==
    IF last = <<>>
    THEN [pc |-> "done", pos |-> 0, found_sep |-> 0, result |-> <<<<>>, <<>>>>]
    ELSE [pc |-> IF At(last, 0) = "\"" /\ sep # "\"" THEN "quote" ELSE "sep",
          pos |-> 0, found_sep |-> 0, result |-> <<<<>>, <<>>>>]

\* lines 350-354: one pass over last.substr(1); the byte looked at is the
\* one at pos + 1
SplitQuote(last, s) ==
    IF s.pos + 1 < Len(last)
    THEN [s EXCEPT !.pos = s.pos + 1,
                   !.pc = IF At(last, s.pos + 1) = "\"" THEN "sep" ELSE "quote"]
    ELSE [s EXCEPT !.pc = "sep"]

\* lines 357-365: one pass over last.substr(pos)
SplitSep(last, sep, s) ==
    IF s.pos < Len(last)
    THEN IF At(last, s.pos) = sep
         THEN [s EXCEPT !.found_sep = 1, !.pc = "return"]
         ELSE [s EXCEPT !.pos = s.pos + 1]
    ELSE [s EXCEPT !.pc = "return"]

\* line 366
SplitReturn(last, s) ==
    [s EXCEPT !.pc = "done",
              !.result = <<substr(last, 0, s.pos),
                           substr(last, s.pos + s.found_sep,
                                  Len(last) - (s.pos + s.found_sep))>>]

(***************************************************************************)
(* The inputs tried: every text of at most len characters over Alphabet    *)
(* and "a:" followed by a run of at most `digits` digits, each between an  *)
(* optional earlier entry and an optional tail; and bracketed device       *)
(* tokens with a port.                                                     *)
(***************************************************************************)
Alphabet == {"a", " ", ":", ",", "[", "]", "s", "7"}

RECURSIVE Texts(_, _)
Texts(alpha, n) ==
    IF n = 0 THEN {<<>>}
    ELSE LET shorter == Texts(alpha, n - 1)
         IN  shorter \cup {Append(t, c) : t \in shorter, c \in alpha}

PortTexts(digits) ==
    Texts({"0", "6", "9"}, digits)
        \cup {<<"6", "8", "8", "1">>, <<"6", "5", "5", "3", "5">>,
              <<"6", "5", "5", "3", "6">>}

Before == {<<>>, <<"a", ":", "7", ",">>}

After == {<<>>, <<":", "7">>, <<",", "b", ":", "7", "s">>}

\* bracketed device tokens
Bracketed(len) ==
    {<<"[">> \o d \o <<"]">> \o a :
        d \in Texts({":", "a", " "}, len),
        a \in {<<":", "7">>, <<" ", ":", "7", "s", ",", "b", ":", "7">>}}

PliInputs(len, digits) ==
    {b \o m \o a : b \in Before, m \in Texts(Alphabet, len), a \in After}
        \cup {b \o <<"a", ":">> \o p \o a :
                 b \in Before, p \in PortTexts(digits),
                 a \in {<<>>, <<"s", ",", "b", ":", "7">>}}
        \cup Bracketed(len)

(***************************************************************************)
(* Spec: parse_listen_interfaces run statement by statement on an input.   *)
(***************************************************************************)
Init == in \in PliInputs(MaxLen, MaxDigits) /\ st = PliFrame

Loop ==
    /\ st.pc = "loop"
    /\ st' = PliLoop(in, st)
    /\ UNCHANGED in

SkipLeading ==
    /\ st.pc = "skip_leading"
    /\ st' = PliSkipLeading(in, st)
    /\ UNCHANGED in

CheckEnd ==
    /\ st.pc = "check_end"
    /\ st' = PliCheckEnd(in, st)
    /\ UNCHANGED in

Branch ==
    /\ st.pc = "branch"
    /\ st' = PliBranch(in, st)
    /\ UNCHANGED in

V6Device ==
    /\ st.pc = "v6_device"
    /\ st' = PliV6Device(in, st)
    /\ UNCHANGED in

SkipToColon ==
    /\ st.pc = "skip_to_colon"
    /\ st' = PliSkipToColon(in, st)
    /\ UNCHANGED in

Device ==
    /\ st.pc = "device"
    /\ st' = PliDevice(in, st)
    /\ UNCHANGED in

SkipSpaces1 ==
    /\ st.pc = "skip_spaces1"
    /\ st' = PliSkipSpaces1(in, st)
    /\ UNCHANGED in

NeedColon ==
    /\ st.pc = "need_colon"
    /\ st' = PliNeedColon(in, st)
    /\ UNCHANGED in

SkipSpaces2 ==
    /\ st.pc = "skip_spaces2"
    /\ st' = PliSkipSpaces2(in, st)
    /\ UNCHANGED in

ConsumePort ==
    /\ st.pc = "consume_port"
    /\ st' = PliConsumePort(in, st)
    /\ UNCHANGED in

PortValue ==
    /\ st.pc = "port_value"
    /\ st' = PliPortValue(in, st)
    /\ UNCHANGED in

SkipSpaces3 ==
    /\ st.pc = "skip_spaces3"
    /\ st' = PliSkipSpaces3(in, st)
    /\ UNCHANGED in

Ssl ==
    /\ st.pc = "ssl"
    /\ st' = PliSsl(in, st)
    /\ UNCHANGED in

SkipToComma ==
    /\ st.pc = "skip_to_comma"
    /\ st' = PliSkipToComma(in, st)
    /\ UNCHANGED in

Push ==
    /\ st.pc = "push"
    /\ st' = PliPush(in, st)
    /\ UNCHANGED in

SkipComma ==
    /\ st.pc = "skip_comma"
    /\ st' = PliSkipComma(in, st)
    /\ UNCHANGED in

Next ==
    \/ Loop \/ SkipLeading \/ CheckEnd \/ Branch \/ V6Device \/ SkipToColon
    \/ Device \/ SkipSpaces1 \/ NeedColon \/ SkipSpaces2 \/ ConsumePort
    \/ PortValue \/ SkipSpaces3 \/ Ssl \/ SkipToComma \/ Push \/ SkipComma

Spec == Init /\ [][Next]_vars

(***************************************************************************)
(* SpecRoundTrip: records, given or parsed from a text, are printed and    *)
(* the printed text is parsed.  st.xs are the records, st.ret the printed  *)
(* text, st.out the records parsed from it.                                *)
(***************************************************************************)
\* a listen_interface_t value
Rec(d, p, x) == [device |-> d, port |-> p, ssl |-> x]

\* at most this many records in a given list
MaxRecs == 2

Devices ==
    {<<>>, <<"a">>, <<"s">>, <<"7", "s">>, <<":", ":">>, <<"a", ":", "b">>}

Ports == {0, 10, 6881, 65535}

Records == {Rec(d, q, x) : d \in Devices, q \in Ports, x \in BOOLEAN}

RECURSIVE Lists(_, _)
Lists(S, n) ==
    IF n = 0 THEN {<<>>}
    ELSE LET shorter == Lists(S, n - 1)
         IN  shorter \cup {Append(l, e) : l \in shorter, e \in S}

RtInit ==
    \/ /\ in \in PliInputs(MaxLen, MaxDigits)
       /\ st = [pc |-> "parse_input", from |-> "text", xs |-> <<>>,
                ret |-> <<>>, out |-> <<>>]
    \/ /\ in \in Lists(Records, MaxRecs)
       /\ st = [pc |-> "print", from |-> "records", xs |-> in,
                ret |-> <<>>, out |-> <<>>]

RtParseInput ==
    /\ st.pc = "parse_input"
    /\ st' = [st EXCEPT !.pc = "print", !.xs = parse_listen_interfaces(in)]
    /\ UNCHANGED in

RtPrint ==
    /\ st.pc = "print"
    /\ st' = [st EXCEPT !.pc = "parse", !.ret = print_listen_interfaces(st.xs)]
    /\ UNCHANGED in

RtParse ==
    /\ st.pc = "parse"
    /\ st' = [st EXCEPT !.pc = "done", !.out = parse_listen_interfaces(st.ret)]
    /\ UNCHANGED in

RtNext == RtParseInput \/ RtPrint \/ RtParse

SpecRoundTrip == RtInit /\ [][RtNext]_vars

(***************************************************************************)
(* SpecToString: to_string run statement by statement on the std::int64_t  *)
(* of an integer.  The integer `in` is a sign and the decimal digits of    *)
(* its magnitude, most significant first, without leading zeros.           *)
(***************************************************************************)
\* longest magnitude of which every digit text is tried
MaxNumLen == 2

AllDigits == {"0", "1", "2", "3", "4", "5", "6", "7", "8", "9"}

\* 10 a + d
RECURSIVE U64Mul10From(_, _, _)
U64Mul10From(a, k, carry) ==
    IF k > 4 THEN <<>>
    ELSE LET d == a[k] * 10 + carry
         IN  <<d % 65536>> \o U64Mul10From(a, k + 1, d \div 65536)

\* the value of a digit text, as limbs
RECURSIVE MagLimbs(_)
MagLimbs(ds) ==
    IF ds = <<>> THEN U64Zero
    ELSE U64Mul10From(MagLimbs(SubSeq(ds, 1, Len(ds) - 1)), 1, DigitVal(ds[Len(ds)]))

\* the bit pattern of the std::int64_t with this sign and magnitude
I64Of(x) ==
    IF x.neg THEN U64Sub(U64Zero, MagLimbs(x.digits)) ELSE MagLimbs(x.digits)

Repeat(c, n) == [k \in 1..n |-> c]

\* 2^63 is 9223372036854775808
Int64Edge ==
    <<"9", "2", "2", "3", "3", "7", "2", "0", "3", "6", "8", "5", "4", "7", "7",
      "5", "8", "0">>

Magnitudes ==
    {t \in Texts(AllDigits, MaxNumLen) : t # <<>> /\ (t[1] = "0" => Len(t) = 1)}
        \cup {<<"1">> \o Repeat("0", k) : k \in 1..Digits10}
        \cup {Repeat("9", k) : k \in 1..Digits10}
        \cup {Append(Int64Edge, c) : c \in {"0", "1", "5", "6", "7"}}

TsInputs ==
    {[neg |-> FALSE, digits |-> m] : m \in Magnitudes}
        \cup {[neg |-> TRUE, digits |-> m] : m \in Magnitudes \ {<<"0">>}}
        \cup {[neg |-> TRUE, digits |-> Append(Int64Edge, "8")]}

TsInit == in \in TsInputs /\ st = [pc |-> "enter"]

ToStringEnter ==
    /\ st.pc = "enter"
    /\ st' = TsEnter(I64Of(in))
    /\ UNCHANGED in

ToStringDigit ==
    /\ st.pc = "digit"
    /\ st' = TsDigit(st)
    /\ UNCHANGED in

ToStringSign ==
    /\ st.pc = "sign"
    /\ st' = TsSign(st)
    /\ UNCHANGED in

ToStringMove ==
    /\ st.pc = "move"
    /\ st' = TsMove(st)
    /\ UNCHANGED in

TsNext == ToStringEnter \/ ToStringDigit \/ ToStringSign \/ ToStringMove

SpecToString == TsInit /\ [][TsNext]_vars

(***************************************************************************)
(* SpecCsv and SpecCsvPort: the two list parsers on every text of at most  *)
(* MaxCsvLen characters over CsvAlphabet.                                  *)
(***************************************************************************)
MaxCsvLen == 5

CsvAlphabet == {"a", " ", ",", ":", "[", "]", "8", "-"}

CsvInit == in \in Texts(CsvAlphabet, MaxCsvLen) /\ st = CsvFrame

CsvTest ==
    /\ st.pc = "loop"
    /\ st' = CsvLoop(in, st)
    /\ UNCHANGED in

CsvField ==
    /\ st.pc = "body"
    /\ st' = CsvBody(in, st)
    /\ UNCHANGED in

CsvNext == CsvTest \/ CsvField

SpecCsv == CsvInit /\ [][CsvNext]_vars

CspInit == in \in Texts(CsvAlphabet, MaxCsvLen) /\ st = CspFrame

CspTest ==
    /\ st.pc = "loop"
    /\ st' = CspLoop(in, st)
    /\ UNCHANGED in

CspField ==
    /\ st.pc = "body"
    /\ st' = CspBody(in, st)
    /\ UNCHANGED in

CspNext == CspTest \/ CspField

SpecCsvPort == CspInit /\ [][CspNext]_vars

(***************************************************************************)
(* SpecSplit: split_string on every text of at most MaxSplitLen characters *)
(* over SplitAlphabet, with each separator of Separators.  `in` is the     *)
(* pair of arguments.                                                      *)
(***************************************************************************)
MaxSplitLen == 4

SplitAlphabet == {"\"", ",", "a"}

Separators == {",", "\"", "a"}

SplitInit ==
    /\ in \in [last : Texts(SplitAlphabet, MaxSplitLen), sep : Separators]
    /\ st = [pc |-> "enter"]

SplitCall ==
    /\ st.pc = "enter"
    /\ st' = SplitEnter(in.last, in.sep)
    /\ UNCHANGED in

SplitQuoteScan ==
    /\ st.pc = "quote"
    /\ st' = SplitQuote(in.last, st)
    /\ UNCHANGED in

SplitSepScan ==
    /\ st.pc = "sep"
    /\ st' = SplitSep(in.last, in.sep, st)
    /\ UNCHANGED in

SplitRet ==
    /\ st.pc = "return"
    /\ st' = SplitReturn(in.last, st)
    /\ UNCHANGED in

SplitNext == SplitCall \/ SplitQuoteScan \/ SplitSepScan \/ SplitRet

SpecSplit == SplitInit /\ [][SplitNext]_vars

(***************************************************************************)
(* Helpers of the properties below: a decimal value and a digit run        *)
(* computed from the text alone, and the states of a parse.                *)
(***************************************************************************)
RECURSIVE DecValue(_)
DecValue(p) ==
    IF p = <<>> THEN 0
    ELSE 10 * DecValue(SubSeq(p, 1, Len(p) - 1)) + DigitVal(p[Len(p)])

\* a port text the grammar rejects: empty, over 5 characters, or over 65535
BadPort(p) == p = <<>> \/ Len(p) > 5 \/ DecValue(p) > 65535

RECURSIVE DigitRun(_, _)
DigitRun(s, k) ==
    IF k < Len(s) /\ is_digit(At(s, k)) THEN <<At(s, k)>> \o DigitRun(s, k + 1)
    ELSE <<>>

HasPrefix(s, pre) == Len(pre) <= Len(s) /\ SubSeq(s, 1, Len(pre)) = pre

\* the statement at need_colon finds no ':' (line 222 returns)
ColonMissing == st.pc = "need_colon" /\ (st.start = Len(in) \/ At(in, st.start) # ":")

\* what "a:7," before, and "s,b:7" after, an entry "a:<digits>" must yield
PortFamilyExpected(b) ==
    LET p == DigitRun(in, Len(b) + 2)
    IN  (IF b = <<>> THEN <<>> ELSE <<Rec(<<"a">>, 7, FALSE)>>)
            \o (IF BadPort(p) THEN <<>> ELSE <<Rec(<<"a">>, DecValue(p), TRUE)>>)
            \o <<Rec(<<"b">>, 7, FALSE)>>

PortFamilyInput(b) ==
    /\ HasPrefix(in, b \o <<"a", ":">>)
    /\ LET k == Len(b) + 2 + Len(DigitRun(in, Len(b) + 2))
       IN  SubSeq(in, k + 1, Len(in)) = <<"s", ",", "b", ":", "7">>

(***************************************************************************)
(* C3: every record in out has a port in 0..65535; at push, an entry whose *)
(* port text is empty, longer than 5 characters or above 65535 appends     *)
(* nothing and leaves the earlier records as they are, while any other     *)
(* entry appends exactly its record; the cursor is then at the next ','    *)
(* (or at the end), the comma is consumed and the loop resumes behind it;  *)
(* and an input "a:<digits>s,b:7", alone or after "a:7,", yields the       *)
(* records of its well-formed entries in input order.                      *)
(***************************************************************************)
C3_PortsInRange ==
    \A k \in 1..Len(st.out) : st.out[k].port >= 0 /\ st.out[k].port <= 65535

C3_PushStep ==
    st.pc = "push" =>
        /\ st.start = Len(in) \/ At(in, st.start) = ","
        /\ IF BadPort(st.port)
           THEN st'.out = st.out
           ELSE st'.out = Append(st.out,
                    Rec(st.iface.device, DecValue(st.port), st.iface.ssl))

C3_ResumeStep ==
    (st.pc = "skip_comma" /\ st.start < Len(in)) =>
        (At(in, st.start) = "," /\ st'.pc = "loop" /\ st'.start = st.start + 1)

C3_EndToEnd ==
    st.pc = "done" =>
        \A b \in Before : PortFamilyInput(b) => st.out = PortFamilyExpected(b)

\* C3: ports in range, an entry with an invalid port dropped on its own, the
\* parse resumed behind the next ','
C3_InvalidPortDropped ==
    /\ [](C3_PortsInRange /\ C3_EndToEnd)
    /\ [][C3_PushStep /\ C3_ResumeStep]_vars

\* "a:7,a:65536s,b:7" parsed to the end: the middle entry is dropped
C3_Witness ==
    /\ in = <<"a", ":", "7", ",", "a", ":", "6", "5", "5", "3", "6", "s", ",",
              "b", ":", "7">>
    /\ st.pc = "done"
    /\ st.out = <<Rec(<<"a">>, 7, FALSE), Rec(<<"b">>, 7, FALSE)>>

(***************************************************************************)
(* C4: a record appended to out has a non-empty device unless its entry's  *)
(* device token began with the bracket pair "[]".                          *)
(***************************************************************************)
C4_DeviceNonEmpty ==
    (st.pc = "skip_comma" /\ st.iface.port >= 0) =>
        \/ st.out[Len(st.out)].device # <<>>
        \/ /\ st.tok + 1 < Len(in)
           /\ At(in, st.tok) = "["
           /\ At(in, st.tok + 1) = "]"

(***************************************************************************)
(* C5: when the statement after the device token finds the end of input or *)
(* a byte other than ':', the parse is over in that step: the cursor and   *)
(* out are left as they are, and out is what the text before the offending *)
(* entry yields on its own.                                                *)
(***************************************************************************)
C5_HardStopStep ==
    ColonMissing =>
        /\ st'.pc = "done"
        /\ st'.out = st.out
        /\ st'.start = st.start
        /\ st'.out = parse_listen_interfaces(SubSeq(in, 1, st.it0))

\* C5: a missing ':' ends the whole parse with the records of the earlier
\* entries only
C5_HardStop == [][C5_HardStopStep]_vars

\* a stop before the end of an input that holds a later ',': one record kept
C5_Witness ==
    /\ st.pc = "done"
    /\ st.start < Len(in)
    /\ Len(st.out) = 1
    /\ \E k \in st.start..(Len(in) - 1) : At(in, k) = ","

(***************************************************************************)
(* C10: the cursor stays within 0..Len(in) and never moves back, every     *)
(* byte read lies below Len(in), every statement has a successor until the *)
(* function returns, each pass of the outer loop leaves the cursor beyond  *)
(* where the pass began, and every statement lowers the variant            *)
(* PliVariant, which is never negative: the parse ends.                    *)
(***************************************************************************)
PliRank(s, n) ==
    CASE s.pc = "done"          -> 0
      [] s.pc = "loop"          -> IF s.start < n THEN 17 ELSE 1
      [] s.pc = "skip_leading"  -> 16
      [] s.pc = "check_end"     -> 15
      [] s.pc = "branch"        -> 14
      [] s.pc = "v6_device"     -> 13
      [] s.pc = "device"        -> 13
      [] s.pc = "skip_to_colon" -> 12
      [] s.pc = "skip_spaces1"  -> 11
      [] s.pc = "need_colon"    -> 10
      [] s.pc = "skip_spaces2"  -> 9
      [] s.pc = "consume_port"  -> 8
      [] s.pc = "port_value"    -> 7
      [] s.pc = "skip_spaces3"  -> 6
      [] s.pc = "ssl"           -> 5
      [] s.pc = "skip_to_comma" -> 4
      [] s.pc = "push"          -> 3
      [] s.pc = "skip_comma"    -> 2

PliVariant(s, n) == (n - s.start) * 18 + PliRank(s, n)

C10_InBounds ==
    /\ st.start >= 0 /\ st.start <= Len(in)
    /\ st.rd >= -1 /\ st.rd < Len(in)
    /\ PliVariant(st, Len(in)) >= 0
    /\ st.pc # "done" => ENABLED Next

C10_Progress ==
    /\ st'.start >= st.start
    /\ PliVariant(st', Len(in)) < PliVariant(st, Len(in))
    /\ st.pc = "skip_comma" => st'.start > st.it0

\* C10: the cursor stays in bounds and moves forward only, and every
\* statement lowers the variant, so the parse ends
C10_Terminates == []C10_InBounds /\ [][C10_Progress]_vars

\* an input of two malformed entries scanned to its end, nothing returned
C10_Witness ==
    /\ st.pc = "done"
    /\ st.start = Len(in)
    /\ st.it0 > 0
    /\ st.out = <<>>
    /\ \E k \in 0..(Len(in) - 1) : At(in, k) = "["

(***************************************************************************)
(* C1: records whose devices hold no ',', ':', '[', ']' and no whitespace  *)
(* (the empty device included) and whose ports are in 0..65535 come back   *)
(* from print_listen_interfaces followed by parse_listen_interfaces        *)
(* unchanged: same length, same order, same device, port and ssl.          *)
(***************************************************************************)
PlainDevice(d) ==
    \A k \in 1..Len(d) : d[k] \notin {",", ":", "[", "]"} /\ ~is_space(d[k])

PlainRecords(xs) ==
    \A k \in 1..Len(xs) :
        PlainDevice(xs[k].device) /\ xs[k].port >= 0 /\ xs[k].port <= 65535

\* C1: print then parse gives back records with plain devices
C1_RoundTripPlain ==
    (st.pc = "done" /\ PlainRecords(st.xs)) => st.out = st.xs

\* two given records, the first with the empty device, the second with ssl
C1_Witness ==
    /\ st.pc = "done"
    /\ st.from = "records"
    /\ Len(st.xs) = 2
    /\ PlainRecords(st.xs)
    /\ st.xs[1].device = <<>>
    /\ st.xs[2].ssl
    /\ st.xs[2].port = 65535
    /\ st.out = st.xs

(***************************************************************************)
(* C2: the records parsed from any text come back from printing and        *)
(* parsing unchanged.                                                      *)
(***************************************************************************)
C2_RoundTripParsed ==
    (st.pc = "done" /\ st.from = "text") => st.out = st.xs

(***************************************************************************)
(* C9: to_string returns the minimal decimal text of n: '-' exactly when   *)
(* n < 0, then the digits of |n| without leading zeros ("0" for 0), the    *)
(* most negative value included; un starts as |n|; and every byte written  *)
(* lies inside the returned array, terminator included.                    *)
(***************************************************************************)
DecimalText(x) == (IF x.neg THEN <<"-">> ELSE <<>>) \o x.digits

\* C9: the text returned is the minimal decimal text of n and fits the array
C9_ToString ==
    /\ st.pc # "enter" => (st.p >= 0 /\ st.p < RetSize)
    /\ (st.pc = "digit" /\ st.p = RetSize - 1) => st.un = MagLimbs(in.digits)
    /\ st.pc = "done" =>
          /\ CStr(st.ret, 0) = DecimalText(in)
          /\ Len(DecimalText(in)) < RetSize
          /\ st.ret[Len(DecimalText(in))] = "NUL"

\* the most negative std::int64_t, printed
C9_Witness ==
    /\ st.pc = "done"
    /\ in = [neg |-> TRUE, digits |-> Append(Int64Edge, "8")]
    /\ st.n = <<0, 0, 0, 32768>>
    /\ Len(CStr(st.ret, 0)) = 20
    /\ st.ret[0] = "-"

(***************************************************************************)
(* The comma-delimited fields of a text and their trimmed forms, read off  *)
(* the text without a cursor.                                              *)
(***************************************************************************)
SetMin(S) == CHOOSE k \in S : \A j \in S : k <= j

SetMax(S) == CHOOSE k \in S : \A j \in S : k >= j

RECURSIVE Fields(_)
Fields(s) ==
    LET commas == {k \in 1..Len(s) : s[k] = ","}
    IN  IF commas = {} THEN <<s>>
        ELSE <<SubSeq(s, 1, SetMin(commas) - 1)>>
                 \o Fields(SubSeq(s, SetMin(commas) + 1, Len(s)))

NonSpace(f) == {k \in 1..Len(f) : ~is_space(f[k])}

Trim(f) ==
    IF NonSpace(f) = {} THEN <<>>
    ELSE SubSeq(f, SetMin(NonSpace(f)), SetMax(NonSpace(f)))

TrimLeft(f) ==
    IF NonSpace(f) = {} THEN <<>> ELSE SubSeq(f, SetMin(NonSpace(f)), Len(f))

(***************************************************************************)
(* C6: on a non-empty input parse_comma_separated_string returns one       *)
(* element per comma-delimited field, in order, each the field trimmed of  *)
(* whitespace at both ends, an empty field (the one after a trailing ','   *)
(* included) kept as the empty text: as many elements as ',' plus one.     *)
(***************************************************************************)
C6_CsvFields ==
    (st.pc = "done" /\ in # <<>>) =>
        /\ Len(st.out) = Cardinality({k \in 1..Len(in) : in[k] = ","}) + 1
        /\ st.out = [k \in 1..Len(Fields(in)) |-> Trim(Fields(in)[k])]

(***************************************************************************)
(* The pair a field stands for.  The name runs from the first              *)
(* non-whitespace byte of the field to its last ':', trimmed of trailing   *)
(* whitespace, less a leading '[' and then a trailing ']'; the port is the *)
(* value of the digit run that leads the text after the ':' behind         *)
(* optional whitespace and a sign, 0 when there is none.  With strict, a   *)
(* field whose only ':' is its first non-whitespace byte stands for        *)
(* nothing; without, it stands for a pair with the empty name.             *)
(***************************************************************************)
StripBrackets(n) ==
    LET n1 == IF n # <<>> /\ n[1] = "[" THEN SubSeq(n, 2, Len(n)) ELSE n
    IN  IF n1 # <<>> /\ n1[Len(n1)] = "]" THEN SubSeq(n1, 1, Len(n1) - 1) ELSE n1

LeadingValue(t) ==
    LET b == TrimLeft(t)
    IN  IF b # <<>> /\ b[1] = "-" THEN 0 - DecValue(DigitRun(b, 1))
        ELSE IF b # <<>> /\ b[1] = "+" THEN DecValue(DigitRun(b, 1))
        ELSE DecValue(DigitRun(b, 0))

FieldPairs(f, strict) ==
    LET colons == {k \in 1..Len(f) : f[k] = ":"}
    IN  IF colons = {} \/ (strict /\ SetMax(colons) = SetMin(NonSpace(f)))
        THEN <<>>
        ELSE LET t == SetMin(NonSpace(f))
                 c == SetMax(colons)
             IN  <<<<StripBrackets(Trim(SubSeq(f, t, c - 1))),
                     LeadingValue(SubSeq(f, c + 1, Len(f)))>>>>

RECURSIVE AllPairs(_, _, _)
AllPairs(fs, k, strict) ==
    IF k > Len(fs) THEN <<>>
    ELSE FieldPairs(fs[k], strict) \o AllPairs(fs, k + 1, strict)

(***************************************************************************)
(* C7, as stated: parse_comma_separated_string_port returns, in order, the *)
(* pair of every field that holds a ':' at or after its first              *)
(* non-whitespace byte, so ":80" gives the pair with the empty name.       *)
(***************************************************************************)
C7_PairAtTrimPoint ==
    st.pc = "done" => st.out = AllPairs(Fields(in), 1, FALSE)

(***************************************************************************)
(* C7, amended: parse_comma_separated_string_port returns, in order, the   *)
(* pair of every field whose last ':' lies after its first non-whitespace  *)
(* byte, split at that ':'; a field without ':' and a field whose ':' is   *)
(* its first non-whitespace byte, such as ":80", give no pair.             *)
(***************************************************************************)
C7_PairAfterTrimPoint ==
    st.pc = "done" => st.out = AllPairs(Fields(in), 1, TRUE)

\* ":8,a:" gives only the pair of the second field, with port 0
C7_Witness ==
    /\ st.pc = "done"
    /\ in = <<":", "8", ",", "a", ":">>
    /\ st.out = << <<<<"a">>, 0>> >>

(***************************************************************************)
(* C8: split_string searches for the separator from the start of the text, *)
(* or, when the text begins with '"' and the separator is not '"', from    *)
(* behind the next '"' after position 0, or nowhere when there is none;    *)
(* it returns the text before the first separator found and the text       *)
(* behind it, or the whole text and the empty text when none is found.     *)
(***************************************************************************)
SplitSearchFrom(last, sep) ==
    IF last # <<>> /\ last[1] = "\"" /\ sep # "\""
    THEN LET closing == {k \in 2..Len(last) : last[k] = "\""}
         IN  IF closing = {} THEN Len(last) + 1 ELSE SetMin(closing) + 1
    ELSE 1

SplitExpected(last, sep) ==
    LET seps == {k \in SplitSearchFrom(last, sep)..Len(last) : last[k] = sep}
    IN  IF seps = {} THEN <<last, <<>>>>
        ELSE <<SubSeq(last, 1, SetMin(seps) - 1),
               SubSeq(last, SetMin(seps) + 1, Len(last))>>

\* C8: the pair returned is the one the search from behind the quoted prefix
\* gives
C8_SplitQuoted ==
    st.pc = "done" => st.result = SplitExpected(in.last, in.sep)

=============================================================================
